---- MODULE Spec2Model ----
(***************************************************************************)
(* TripIt -> Todoist local outreach (src/tripit_local_outreach.py).        *)
(*                                                                         *)
(* Strings are sequences of one-character strings.  Dates are day numbers  *)
(* (ISO dates compare as their day numbers do).  A coordinate is a point   *)
(* on one meridian, counted in steps of KmPerStep kilometres, so that the  *)
(* great-circle distance of two coordinates is KmPerStep times the         *)
(* difference of their step numbers.                                       *)
(***************************************************************************)
EXTENDS Integers, Sequences, FiniteSets, TLC

(* Optional[T]: None, or Some(x) *)
None == <<>>

Some(x) == <<x>>

val(o) == o[1]

(***************************************************************************)
(* Bounds of the model.                                                    *)
(***************************************************************************)
MaxRuns == 2
MaxEvents == 2
MaxCoord == 1
MaxTripLen == 3
MaxFiles == 2
MaxScan == 3
MaxDay == 2
MaxNameLen == 3

(***************************************************************************)
(* Program constants.                                                      *)
(***************************************************************************)
DEFAULT_RADIUS_KM == 50
LookaheadDays == 90
KmPerStep == 60

(***************************************************************************)
(* Characters: str.isalnum, str.isspace, str.lower.                        *)
(* "I." stands for U+0130, whose lower case is the two characters "i" and  *)
(* U+0307 (written "."), a combining mark that is not alphanumeric.        *)
(***************************************************************************)
isalnum(ch) == ch \in {"a", "b", "c", "i", "A", "B", "I."}

isspace(ch) == ch \in {" ", "\t"}

lower(ch) ==
  CASE ch = "A" -> <<"a">>
    [] ch = "B" -> <<"b">>
    [] ch = "I." -> <<"i", ".">>
    [] OTHER -> <<ch>>

RECURSIVE cleaned(_)
cleaned(name) ==
  IF name = <<>> THEN <<>>
  ELSE (IF isalnum(Head(name)) \/ isspace(Head(name))
          THEN lower(Head(name)) ELSE <<" ">>) \o cleaned(Tail(name))

(* str.split(): the maximal runs of non-whitespace characters, in order *)
RECURSIVE split(_, _)
split(s, word) ==
  IF s = <<>> THEN (IF word = <<>> THEN <<>> ELSE <<word>>)
  ELSE IF isspace(Head(s))
         THEN (IF word = <<>> THEN <<>> ELSE <<word>>) \o split(Tail(s), <<>>)
         ELSE split(Tail(s), Append(word, Head(s)))

(* " ".join(words) *)
RECURSIVE join(_)
join(words) ==
  IF words = <<>> THEN <<>>
  ELSE IF Len(words) = 1 THEN Head(words)
  ELSE Head(words) \o <<" ">> \o join(Tail(words))

normalize_city(name) == join(split(cleaned(name), <<>>))

(* key in s  (Python's substring test on strings) *)
contains(s, key) ==
  \E i \in 0..(Len(s) - Len(key)) : SubSeq(s, i + 1, i + Len(key)) = key

(***************************************************************************)
(* haversine_km on one meridian: r * |dlat|, in whole kilometres.          *)
(***************************************************************************)
haversine_km(c1, c2) == KmPerStep * (IF c1 >= c2 THEN c1 - c2 ELSE c2 - c1)

Coords == 0..MaxCoord

(***************************************************************************)
(* Calendar events: [location, summary, dtstart, dtend].  location and     *)
(* summary are strings (<<>> when the field is absent or empty), dtstart   *)
(* and dtend are Optional day numbers already coerced to the configured    *)
(* timezone; day 0 is the day of the run.                                  *)
(***************************************************************************)
RECURSIVE lstrip(_)
lstrip(s) == IF s # <<>> /\ isspace(Head(s)) THEN lstrip(Tail(s)) ELSE s

RECURSIVE rstrip(_)
rstrip(s) ==
  IF s # <<>> /\ isspace(s[Len(s)]) THEN rstrip(SubSeq(s, 1, Len(s) - 1)) ELSE s

strip(s) == rstrip(lstrip(s))

parse_event_city(event) ==
  IF strip(event.location) # <<>> THEN Some(strip(event.location))
  ELSE IF strip(event.summary) # <<>> THEN Some(strip(event.summary))
  ELSE None

parse_event_dates(event) == [start |-> event.dtstart, end |-> event.dtend]

event_in_range(event) ==
  IF event.dtstart = None THEN FALSE
  ELSE LET begin_dt == val(event.dtstart)
           end_dt == IF event.dtend # None THEN val(event.dtend) ELSE begin_dt
       IN  begin_dt <= LookaheadDays /\ end_dt >= 0

Trip(id, city, start, end) ==
  [trip_id |-> id, city |-> city, start_date |-> start, end_date |-> end]

(* index of the trip with this key in grouped, 0 when there is none *)
grouped_get(grouped, key) ==
  IF \E i \in 1..Len(grouped) : grouped[i].trip_id = key
    THEN CHOOSE i \in 1..Len(grouped) : grouped[i].trip_id = key
    ELSE 0

(* the loop body with line 184 unconditional: a later event sets the start *)
merge_event_last_start(grouped, event) ==
  IF ~event_in_range(event) THEN grouped
  ELSE IF parse_event_city(event) = None THEN grouped
  ELSE LET city == val(parse_event_city(event))
           d == parse_event_dates(event)
           key == normalize_city(city)
           i == grouped_get(grouped, key)
       IN  IF d.start = None THEN grouped
           ELSE IF i = 0 THEN Append(grouped, Trip(key, city, d.start, d.end))
           ELSE LET existing == grouped[i]
                    e == IF existing.end_date = None
                            \/ (d.end # None /\ val(d.end) > val(existing.end_date))
                           THEN d.end ELSE existing.end_date
                IN  [grouped EXCEPT ![i] = Trip(key, existing.city, d.start, e)]

(* one pass of the loop body of fetch_trips over an event *)
merge_event(grouped, event) ==
  IF ~event_in_range(event) THEN grouped
  ELSE IF parse_event_city(event) = None THEN grouped
  ELSE LET city == val(parse_event_city(event))
           d == parse_event_dates(event)
           key == normalize_city(city)
           i == grouped_get(grouped, key)
       IN  IF d.start = None THEN grouped
           ELSE IF i = 0 THEN Append(grouped, Trip(key, city, d.start, d.end))
           ELSE LET existing == grouped[i]
                    s == IF existing.start_date = None
                            \/ val(d.start) < val(existing.start_date)
                           THEN d.start ELSE existing.start_date
                    e == IF existing.end_date = None
                            \/ (d.end # None /\ val(d.end) > val(existing.end_date))
                           THEN d.end ELSE existing.end_date
                IN  [grouped EXCEPT ![i] = Trip(key, existing.city, s, e)]

RECURSIVE fetch_loop(_, _)
fetch_loop(grouped, events) ==
  IF events = <<>> THEN grouped
  ELSE fetch_loop(merge_event(grouped, Head(events)), Tail(events))

(* the trips of a feed, in the order of the grouping dict *)
fetch_trips(events) == fetch_loop(<<>>, events)

(***************************************************************************)
(* The contacts directory is its listing: a sequence of entries            *)
(* [stem, txt], txt telling whether the name ends in ".txt".  A contacts   *)
(* map is the dict of load_contacts_map in iteration order: a sequence of  *)
(* [key, path] with distinct keys, the path standing for its file stem.    *)
(***************************************************************************)
map_index(mapping, key) ==
  IF \E i \in 1..Len(mapping) : mapping[i].key = key
    THEN CHOOSE i \in 1..Len(mapping) : mapping[i].key = key
    ELSE 0

RECURSIVE load_loop(_, _)
load_loop(mapping, listing) ==
  IF listing = <<>> THEN mapping
  ELSE LET entry == Head(listing)
           key == normalize_city(entry.stem)
           i == map_index(mapping, key)
           item == [key |-> key, path |-> entry.stem]
       IN  IF ~entry.txt THEN load_loop(mapping, Tail(listing))
           ELSE IF i = 0 THEN load_loop(Append(mapping, item), Tail(listing))
           ELSE load_loop([mapping EXCEPT ![i] = item], Tail(listing))

load_contacts_map(listing) == load_loop(<<>>, listing)

(***************************************************************************)
(* geocode_city: the outcomes of one call.  ret is the returned Optional   *)
(* coordinate, cache the cache after the call, resp what the provider did: *)
(* "hit" (no request), "empty", "found", or "error" (the request raised).  *)
(***************************************************************************)
(* geocode_city without line 87: an answer is returned but not cached *)
geocode_city_unwritten(city, cache) ==
  LET key == normalize_city(city) IN
  IF key \in DOMAIN cache
    THEN {[ret |-> Some(cache[key]), cache |-> cache, resp |-> "hit"]}
    ELSE {[ret |-> None, cache |-> cache, resp |-> "error"],
          [ret |-> None, cache |-> cache, resp |-> "empty"]}
         \cup {[ret |-> Some(c), cache |-> cache, resp |-> "found"] : c \in Coords}

(* geocode_city caching an empty answer as the origin *)
geocode_city_negative(city, cache) ==
  LET key == normalize_city(city) IN
  IF key \in DOMAIN cache
    THEN {[ret |-> Some(cache[key]), cache |-> cache, resp |-> "hit"]}
    ELSE {[ret |-> None, cache |-> cache, resp |-> "error"],
          [ret |-> None, cache |-> (key :> 0) @@ cache, resp |-> "empty"]}
         \cup {[ret |-> Some(c), cache |-> (key :> c) @@ cache, resp |-> "found"] :
                 c \in Coords}

(* geocode_city without the cache test of lines 75-76: every call asks the
   provider and writes its answer over the entry *)
geocode_city_refreshing(city, cache) ==
  LET key == normalize_city(city) IN
  {[ret |-> None, cache |-> cache, resp |-> "error"],
   [ret |-> None, cache |-> cache, resp |-> "empty"]}
  \cup {[ret |-> Some(c), cache |-> (key :> c) @@ cache, resp |-> "found"] :
          c \in Coords}

geocode_city(city, cache) ==
  LET key == normalize_city(city) IN
  IF key \in DOMAIN cache
    THEN {[ret |-> Some(cache[key]), cache |-> cache, resp |-> "hit"]}
    ELSE {[ret |-> None, cache |-> cache, resp |-> "error"],
          [ret |-> None, cache |-> cache, resp |-> "empty"]}
         \cup {[ret |-> Some(c), cache |-> (key :> c) @@ cache, resp |-> "found"] :
                 c \in Coords}

(***************************************************************************)
(* match_city, exact phase: the selected item of the contacts map, or None *)
(***************************************************************************)
(* lines 220-223 without the length test: the last matching key wins *)
RECURSIVE best_exact_last(_, _, _)
best_exact_last(normalized_trip, items, best) ==
  IF items = <<>> THEN best
  ELSE LET key == Head(items).key
           take == key # <<>> /\ contains(normalized_trip, key)
       IN  best_exact_last(normalized_trip, Tail(items),
                           IF take THEN Some(Head(items)) ELSE best)

RECURSIVE best_exact(_, _, _)
best_exact(normalized_trip, items, best) ==
  IF items = <<>> THEN best
  ELSE LET key == Head(items).key
           take == key # <<>> /\ contains(normalized_trip, key)
                   /\ (best = None \/ Len(key) > Len(val(best).key))
       IN  best_exact(normalized_trip, Tail(items),
                      IF take THEN Some(Head(items)) ELSE best)

(* lines 215-225 without the substring scan: only an equal key matches *)
exact_phase_equal_only(trip_city, contacts_map) ==
  LET normalized_trip == normalize_city(trip_city)
      i == map_index(contacts_map, normalized_trip)
  IN  IF i # 0 THEN Some(contacts_map[i]) ELSE None

exact_phase(trip_city, contacts_map) ==
  LET normalized_trip == normalize_city(trip_city)
      i == map_index(contacts_map, normalized_trip)
  IN  IF i # 0 THEN Some(contacts_map[i])
      ELSE best_exact(normalized_trip, contacts_map, None)

(* line 239 without the comparison to the best so far *)
radius_keep_any(trip_coords, coords, best_distance, radius_km) ==
  haversine_km(val(trip_coords), val(coords)) <= radius_km

(* match_city, radius phase: the loop body for one item with its coords *)
radius_keep(trip_coords, coords, best_distance, radius_km) ==
  LET distance == haversine_km(val(trip_coords), val(coords))
  IN  distance <= radius_km
      /\ (best_distance = None \/ distance < val(best_distance))

MatchResult(path, type, distance) ==
  [path |-> path, type |-> type, distance |-> distance]

NoMatch == MatchResult(None, None, None)

EmptyMap == [k \in {} |-> 0]

Bump(f, k) == IF k \in DOMAIN f THEN [f EXCEPT ![k] = @ + 1] ELSE (k :> 1) @@ f

(* the sequences over S of length at most n *)
SeqsUpTo(S, n) == UNION {[1..m -> S] : m \in 0..n}

(***************************************************************************)
(* The environment of the runs: the feeds the calendar may serve, the      *)
(* contacts directory with its files, and the configurations.              *)
(***************************************************************************)
Ev(loc, s, e) == [location |-> loc, summary |-> <<>>, dtstart |-> s, dtend |-> e]

MainEvents ==
  {Ev(<<"A">>, Some(1), None), Ev(<<"a">>, Some(2), Some(3)),
   Ev(<<"c">>, Some(1), Some(1))}

(* a feed lists an event once *)
Feeds ==
  {f \in SeqsUpTo(MainEvents, MaxEvents) :
     \A i, j \in 1..Len(f) : i # j => f[i] # f[j]}

File(stem) == [stem |-> stem, txt |-> TRUE]

Listings ==
  {<<[stem |-> <<"c">>, txt |-> FALSE]>>,
   <<File(<<"a">>)>>,
   <<File(<<"B">>)>>}

(* the stripped non-empty lines of a contact file, each by its name part *)
FileLines(stem) ==
  IF stem = <<"a">> THEN <<"n1", "", "n2">> ELSE <<"n3">>

Config(loaded, url, token) ==
  [loaded |-> loaded, ics_url |-> url, api_token |-> token]

Configs ==
  {Config(TRUE, TRUE, TRUE), Config(FALSE, FALSE, FALSE),
   Config(TRUE, FALSE, TRUE), Config(TRUE, TRUE, FALSE)}

VARIABLES
  contacts_dir,    \* the listing of the contacts directory
  state_file,      \* processed_trip_ids of STATE_FILE
  geo_cache_file,  \* GEO_CACHE_FILE
  sink,            \* the tasks the task sink has ever been asked to create
  committed,       \* the tasks created by runs that reached the final save
  runs,            \* number of runs started
  pc,              \* where main is
  exit,            \* how the last run ended: "none", "ok", "error", "raised"
  ignore_state, state, processed, geo_cache, contacts_map, radius_km,
  feed,            \* Some(events) of the last feed fetched
  new_trips, trip, match, trip_coords, items, best_match, best_distance,
  lines, created_count,
  run_tasks,       \* the tasks created by this run
  selected,        \* the trip ids of new_trips as selected by this run
  lookups,         \* key -> requests sent to the provider in this run
  resolved,        \* key -> requests of this run the provider answered
  gkey, coords, resp,  \* key, return value and outcome of the last geocode_city
  repeat,          \* "no", or how the previous run ended ("ok", "raised") when
                   \* this run has its feed and neither has --ignore-state
  noflag,          \* no run so far had --ignore-state
  config,          \* the configuration the run was started with
  saves,           \* how often this run has saved the two documents
  due,             \* the tasks of the contacts of the trips this run has matched
  walk, grouped,   \* fetch_trips: the events still to scan, the grouping dict
  text, once, twice  \* a string, its normalized form, and that normalized again

env == <<contacts_dir, state_file, geo_cache_file, sink, committed>>

hist == <<repeat, noflag>>

runv == <<ignore_state, state, processed, geo_cache, contacts_map, radius_km>>

tripv == <<new_trips, trip, selected>>

matchv == <<match, trip_coords, items, best_match, best_distance>>

geov == <<lookups, resolved, gkey, coords, resp>>

emitv == <<lines, created_count, run_tasks>>

tallyv == <<config, saves, due>>

fetchv == <<walk, grouped>>

normv == <<text, once, twice>>

vars ==
  <<env, hist, runv, tripv, matchv, geov, emitv, tallyv, fetchv, normv, runs,
    pc, exit, feed>>

MatchIdle ==
  /\ match = NoMatch /\ trip_coords = None /\ items = <<>>
  /\ best_match = None /\ best_distance = None

GeoIdle ==
  /\ lookups = EmptyMap /\ resolved = EmptyMap
  /\ gkey = None /\ coords = None /\ resp = "none"

TallyIdle == config = Config(TRUE, TRUE, TRUE) /\ saves = 0 /\ due = {}

FetchIdle == walk = <<>> /\ grouped = <<>>

NormIdle == text = <<>> /\ once = None /\ twice = None

(* the locals of match_city are gone once its result is used *)
ResetMatch ==
  /\ match' = NoMatch /\ trip_coords' = None /\ items' = <<>>
  /\ best_match' = None /\ best_distance' = None

ResetGeo ==
  /\ lookups' = EmptyMap /\ resolved' = EmptyMap
  /\ gkey' = None /\ coords' = None /\ resp' = "none"

Init ==
  /\ contacts_dir \in Listings
  /\ state_file = {} /\ geo_cache_file = EmptyMap /\ sink = {} /\ committed = {}
  /\ runs = 0 /\ pc = "idle" /\ exit = "none" /\ feed = None
  /\ ignore_state = FALSE /\ state = {} /\ processed = {}
  /\ geo_cache = EmptyMap /\ contacts_map = <<>> /\ radius_km = DEFAULT_RADIUS_KM
  /\ new_trips = <<>> /\ trip = None /\ selected = {}
  /\ MatchIdle /\ GeoIdle /\ FetchIdle /\ NormIdle
  /\ lines = <<>> /\ created_count = 0 /\ run_tasks = {}
  /\ repeat = "no" /\ noflag = TRUE /\ TallyIdle

(* main, lines 277-285 alone: an empty contacts map is not an error *)
config_error_contacts_unchecked(cfg, cmap) ==
  ~cfg.loaded \/ ~cfg.ics_url \/ ~cfg.api_token

(* main, lines 277-285 and 297-299: the run returns 1 *)
config_error(cfg, cmap) ==
  ~cfg.loaded \/ ~cfg.ics_url \/ ~cfg.api_token \/ cmap = <<>>

(***************************************************************************)
(* main, lines 270-299: arguments, configuration, the two persisted        *)
(* documents and the contacts map.                                         *)
(***************************************************************************)
Start ==
  /\ pc \in {"idle", "exit"} /\ runs < MaxRuns
  /\ \E ignore \in BOOLEAN, cfg \in Configs :
       LET cmap == load_contacts_map(contacts_dir)
           bad == ~cfg.loaded \/ ~cfg.ics_url \/ ~cfg.api_token
       IN  /\ runs' = runs + 1
           /\ config' = cfg
           /\ ignore_state' = ignore
           /\ noflag' = (noflag /\ ~ignore)
           /\ radius_km' = DEFAULT_RADIUS_KM
           /\ IF bad
                THEN /\ state' = {} /\ processed' = {} /\ geo_cache' = EmptyMap
                     /\ contacts_map' = <<>>
                ELSE /\ state' = state_file
                     /\ processed' = IF ignore THEN {} ELSE state_file
                     /\ geo_cache' = geo_cache_file
                     /\ contacts_map' = cmap
           /\ IF config_error(cfg, cmap)
                THEN pc' = "exit" /\ exit' = "error" /\ repeat' = "no"
                ELSE /\ pc' = "fetch" /\ exit' = "none"
                     /\ repeat' = IF exit \in {"ok", "raised"} /\ pc = "exit"
                                     /\ ~ignore_state /\ ~ignore
                                    THEN exit ELSE "no"
  /\ new_trips' = <<>> /\ trip' = None /\ selected' = {}
  /\ ResetMatch /\ ResetGeo
  /\ lines' = <<>> /\ created_count' = 0 /\ run_tasks' = {}
  /\ saves' = 0 /\ due' = {}
  /\ UNCHANGED <<fetchv, normv, env, feed>>

(* main, line 306 with every trip kept *)
select_new_unfiltered(trips, done) == trips

(* main, line 306: the trips whose id is not in the processed set *)
select_new(trips, done) == SelectSeq(trips, LAMBDA t : t.trip_id \notin done)

(***************************************************************************)
(* main, lines 301-309: the feed is fetched and the processed trips are    *)
(* filtered out.                                                           *)
(***************************************************************************)
(* the request of line 164 raises and the documents are saved all the same *)
FetchRaiseSaving ==
  /\ pc = "fetch"
  /\ pc' = "exit" /\ exit' = "raised" /\ repeat' = "no"
  /\ state' = processed /\ state_file' = processed /\ geo_cache_file' = geo_cache
  /\ saves' = saves + 1
  /\ UNCHANGED <<config, due, fetchv, normv, contacts_dir, sink, committed,
                 noflag, ignore_state, processed, geo_cache, contacts_map,
                 radius_km, tripv, matchv, geov, emitv, runs, feed>>

(* the request of line 164 raises *)
FetchRaise ==
  /\ pc = "fetch"
  /\ pc' = "exit" /\ exit' = "raised" /\ repeat' = "no"
  /\ UNCHANGED <<tallyv, fetchv, normv, env, noflag, runv, tripv, matchv,
                 geov, emitv, runs, feed>>

Fetch ==
  /\ pc = "fetch"
  /\ \E events \in Feeds :
       LET trips == fetch_trips(events)
           new == select_new(trips, processed)
       IN  /\ feed' = Some(events)
           /\ repeat' = IF feed = Some(events) THEN repeat ELSE "no"
           /\ new_trips' = new
           /\ selected' = {new[i].trip_id : i \in 1..Len(new)}
           /\ IF new = <<>>
                THEN pc' = "exit" /\ exit' = "ok"
                ELSE pc' = "trip" /\ exit' = exit
  /\ UNCHANGED <<tallyv, fetchv, normv, env, noflag, runv, trip, matchv, geov,
                 emitv, runs>>

(* main, line 312: the head of the loop over new_trips *)
NextTrip ==
  /\ pc = "trip"
  /\ IF new_trips = <<>>
       THEN pc' = "persist" /\ UNCHANGED <<new_trips, trip>>
       ELSE pc' = "match" /\ trip' = Some(Head(new_trips))
            /\ new_trips' = Tail(new_trips)
  /\ UNCHANGED <<tallyv, fetchv, normv, env, hist, runv, selected, matchv,
                 geov, emitv, runs, exit, feed>>

(***************************************************************************)
(* match_city, lines 215-225: the exact phase.                             *)
(***************************************************************************)
MatchExact ==
  /\ pc = "match"
  /\ LET e == exact_phase(val(trip).city, contacts_map)
     IN  IF e # None
           THEN /\ match' = MatchResult(Some(val(e).path), Some("exact"), None)
                /\ pc' = "matched"
           ELSE /\ match' = match
                /\ pc' = "geo_trip"
  /\ UNCHANGED <<tallyv, fetchv, normv, env, hist, runv, tripv, trip_coords,
                 items, best_match, best_distance, geov, emitv, runs, exit,
                 feed>>

(* what a call of geocode_city with outcome o leaves in the geocode record *)
Geocoded(city, o) ==
  LET key == normalize_city(city) IN
  /\ gkey' = Some(key) /\ coords' = o.ret /\ resp' = o.resp
  /\ lookups' = IF o.resp = "hit" THEN lookups ELSE Bump(lookups, key)
  /\ resolved' = IF o.resp = "found" THEN Bump(resolved, key) ELSE resolved

(* an exception leaves main: nothing is saved *)
Raise ==
  /\ pc' = "exit" /\ exit' = "raised"

(* lines 227-229 with a default: an unresolved trip city counts as step 0 *)
trip_coords_or_origin(ret) == IF ret = None THEN Some(0) ELSE ret

(* lines 227-229: the coordinates the radius phase goes on with; None ends
   the match *)
trip_coords_or_stop(ret) == ret

(***************************************************************************)
(* match_city, lines 227-229: the trip city is geocoded.                   *)
(***************************************************************************)
GeoTrip ==
  /\ pc = "geo_trip"
  /\ \E o \in geocode_city(val(trip).city, geo_cache) :
       /\ Geocoded(val(trip).city, o)
       /\ geo_cache' = o.cache
       /\ IF o.resp = "error"
            THEN Raise /\ UNCHANGED matchv
            ELSE /\ exit' = exit
                 /\ IF trip_coords_or_stop(o.ret) = None \/ contacts_map = <<>>
                      THEN /\ pc' = "matched"
                           /\ match' = NoMatch
                           /\ UNCHANGED <<trip_coords, items, best_match,
                                          best_distance>>
                      ELSE /\ pc' = "geo_contact"
                           /\ trip_coords' = trip_coords_or_stop(o.ret)
                           /\ items' = contacts_map
                           /\ UNCHANGED <<match, best_match, best_distance>>
  /\ UNCHANGED <<tallyv, fetchv, normv, env, hist, ignore_state, state,
                 processed, contacts_map, radius_km, tripv, emitv, runs,
                 feed>>

(***************************************************************************)
(* match_city, lines 233-245: one pass of the loop over the contacts map,  *)
(* and the return after the last one.                                      *)
(***************************************************************************)
GeoContact ==
  /\ pc = "geo_contact"
  /\ LET item == Head(items)
         city_name == item.path
     IN  \E o \in geocode_city(city_name, geo_cache) :
           /\ Geocoded(city_name, o)
           /\ geo_cache' = o.cache
           /\ IF o.resp = "error"
                THEN Raise /\ UNCHANGED matchv
                ELSE LET keep == o.ret # None
                                 /\ radius_keep(trip_coords, o.ret, best_distance,
                                                radius_km)
                         bm == IF keep THEN Some(item.path) ELSE best_match
                         bd == IF keep
                                 THEN Some(haversine_km(val(trip_coords), val(o.ret)))
                                 ELSE best_distance
                     IN  /\ exit' = exit
                         /\ best_match' = bm /\ best_distance' = bd
                         /\ items' = Tail(items)
                         /\ trip_coords' = trip_coords
                         /\ IF Tail(items) # <<>>
                              THEN pc' = "geo_contact" /\ match' = match
                              ELSE /\ pc' = "matched"
                                   /\ match' = IF bm # None
                                                 THEN MatchResult(bm, Some("radius"), bd)
                                                 ELSE NoMatch
  /\ UNCHANGED <<tallyv, fetchv, normv, env, hist, ignore_state, state,
                 processed, contacts_map, radius_km, tripv, emitv, runs,
                 feed>>

Task(t, name) == [trip |-> t.trip_id, name |-> name]

(* the tasks of trip t for the contacts of a file: one per line with a name *)
Contacts(t, stem) ==
  {Task(t, FileLines(stem)[i]) :
     i \in {j \in 1..Len(FileLines(stem)) : FileLines(stem)[j] # ""}}

(***************************************************************************)
(* main, lines 313-318: no match skips the trip, a match reads the file.   *)
(***************************************************************************)
HandleMatch ==
  /\ pc = "matched"
  /\ IF match.path = None
       THEN /\ pc' = "trip" /\ ResetMatch /\ lines' = lines /\ due' = due
       ELSE /\ pc' = "emit" /\ lines' = FileLines(val(match.path))
            /\ due' = due \cup Contacts(val(trip), val(match.path))
            /\ UNCHANGED matchv
  /\ UNCHANGED <<config, saves, fetchv, normv, env, hist, runv, tripv, geov,
                 created_count, run_tasks, runs, exit, feed>>


(***************************************************************************)
(* create_todoist_task: the sink creates the task, or the request raises.  *)
(***************************************************************************)
create_todoist_task(task) ==
  {[ok |-> TRUE, sink |-> sink \cup {task}], [ok |-> FALSE, sink |-> sink]}

(* main, lines 320-327: one line of the matched contact file *)
Emit ==
  /\ pc = "emit" /\ lines # <<>>
  /\ LET name == Head(lines)
         task == Task(val(trip), name)
     IN  IF name = ""
           THEN /\ lines' = Tail(lines)
                /\ UNCHANGED <<sink, created_count, run_tasks, pc, exit>>
           ELSE \E r \in create_todoist_task(task) :
                  /\ sink' = r.sink
                  /\ IF r.ok
                       THEN /\ lines' = Tail(lines)
                            /\ created_count' = created_count + 1
                            /\ run_tasks' = run_tasks \cup {task}
                            /\ UNCHANGED <<pc, exit>>
                       ELSE Raise /\ UNCHANGED <<lines, created_count, run_tasks>>
  /\ UNCHANGED <<tallyv, fetchv, normv, contacts_dir, state_file,
                 geo_cache_file, committed, hist, runv, tripv, matchv, geov,
                 runs, feed>>

(* main, line 329 with the add left out *)
mark_forgotten(done, t) == done

(* main, line 329: processed.add(trip.trip_id) *)
mark(done, t) == done \cup {t.trip_id}

(* line 329 inside the loop of line 320: marked after any line *)
lines_done_anytime(rest) == TRUE

(* line 329 follows the loop of lines 320-327: no line is left *)
lines_done(rest) == rest = <<>>

(* main, line 329: the trip is marked once its lines are done *)
Mark ==
  /\ pc = "emit" /\ lines_done(lines)
  /\ processed' = mark(processed, val(trip))
  /\ pc' = "trip" /\ ResetMatch
  /\ UNCHANGED <<tallyv, fetchv, normv, env, hist, ignore_state, state,
                 geo_cache, contacts_map, radius_km, tripv, geov, emitv, runs,
                 exit, feed>>

(***************************************************************************)
(* main, lines 331-336: the two documents are saved.                       *)
(***************************************************************************)
Persist ==
  /\ pc = "persist"
  /\ state' = processed
  /\ state_file' = processed
  /\ geo_cache_file' = geo_cache
  /\ committed' = committed \cup run_tasks
  /\ saves' = saves + 1
  /\ pc' = "exit" /\ exit' = "ok"
  /\ UNCHANGED <<config, due, fetchv, normv, contacts_dir, sink, hist,
                 ignore_state, processed, geo_cache, contacts_map, radius_km,
                 tripv, matchv, geov, emitv, runs, feed>>

Next ==
  \/ Start \/ FetchRaise \/ Fetch \/ NextTrip
  \/ MatchExact \/ GeoTrip \/ GeoContact
  \/ HandleMatch \/ Emit \/ Mark \/ Persist

Spec == Init /\ [][Next]_vars

(***************************************************************************)
(* match_city on its own: one call, for every trip city, contacts map,     *)
(* cache and radius within the bounds.                                     *)
(***************************************************************************)
MatchChars == {"a", "b", "-"}

MatchCities == SeqsUpTo(MatchChars, MaxTripLen) \ {<<>>}

MatchStems == {<<"a">>, <<"b">>, <<"a", "b">>, <<"-">>}

MatchListings ==
  {l \in SeqsUpTo({File(st) : st \in MatchStems}, MaxFiles) :
     l # <<>> /\ \A i, j \in 1..Len(l) : i # j => l[i] # l[j]}

MatchCaches == UNION {[K -> Coords] : K \in SUBSET {<<"a">>}}

Radii == {KmPerStep, DEFAULT_RADIUS_KM}

InitMatch ==
  /\ contacts_dir \in MatchListings
  /\ contacts_map = load_contacts_map(contacts_dir)
  /\ geo_cache_file \in MatchCaches
  /\ geo_cache = geo_cache_file
  /\ radius_km \in Radii
  /\ \E city \in MatchCities :
       trip = Some(Trip(normalize_city(city), city, Some(1), None))
  /\ state_file = {} /\ sink = {} /\ committed = {}
  /\ runs = 1 /\ pc = "match" /\ exit = "none" /\ feed = None
  /\ ignore_state = FALSE /\ state = {} /\ processed = {}
  /\ new_trips = <<>> /\ selected = {val(trip).trip_id}
  /\ MatchIdle /\ GeoIdle /\ FetchIdle /\ NormIdle
  /\ lines = <<>> /\ created_count = 0 /\ run_tasks = {}
  /\ repeat = "no" /\ noflag = TRUE /\ TallyIdle

NextMatch == MatchExact \/ GeoTrip \/ GeoContact

SpecMatch == InitMatch /\ [][NextMatch]_vars

(***************************************************************************)
(* fetch_trips on its own: the loop of lines 170-187 over every feed of at *)
(* most MaxScan events.  The events have their start on or before their    *)
(* end; some have no end, no start, no city, or lie outside the window.    *)
(***************************************************************************)
FetchCities == {<<"a">>, <<"A">>}

Spans ==
  {<<Some(s), e>> : s \in 1..MaxDay,
                    e \in {None} \cup {Some(d) : d \in 1..MaxDay}}

FetchEvents ==
  {Ev(c, sp[1], sp[2]) : c \in FetchCities,
                         sp \in {x \in Spans : x[2] = None \/ val(x[1]) <= val(x[2])}}
  \cup {Ev(<<"b">>, Some(1), None),
        Ev(<<"a">>, None, None),
        Ev(<<" ">>, Some(1), Some(1)),
        Ev(<<"a">>, Some(LookaheadDays + 1), Some(LookaheadDays + 1)),
        Ev(<<"a">>, Some(0 - 2), Some(0 - 1))}

InitFetch ==
  /\ walk \in SeqsUpTo(FetchEvents, MaxScan)
  /\ feed = Some(walk)
  /\ grouped = <<>>
  /\ contacts_dir = <<File(<<"a">>)>> /\ contacts_map = load_contacts_map(contacts_dir)
  /\ state_file = {} /\ geo_cache_file = EmptyMap /\ sink = {} /\ committed = {}
  /\ runs = 1 /\ pc = "fetch" /\ exit = "none"
  /\ ignore_state = FALSE /\ state = {} /\ processed = {}
  /\ geo_cache = EmptyMap /\ radius_km = DEFAULT_RADIUS_KM
  /\ new_trips = <<>> /\ trip = None /\ selected = {}
  /\ MatchIdle /\ GeoIdle /\ NormIdle
  /\ lines = <<>> /\ created_count = 0 /\ run_tasks = {}
  /\ repeat = "no" /\ noflag = TRUE /\ TallyIdle

(* fetch_trips, lines 170-187: the loop body on the next event of the walk *)
Scan ==
  /\ pc = "fetch" /\ walk # <<>>
  /\ grouped' = merge_event(grouped, Head(walk))
  /\ walk' = Tail(walk)
  /\ UNCHANGED <<tallyv, normv, env, hist, runv, tripv, matchv, geov, emitv,
                 runs, pc, exit, feed>>

NextFetch == Scan

SpecFetch == InitFetch /\ [][NextFetch]_vars

(***************************************************************************)
(* normalize_city on its own: every string of at most MaxNameLen           *)
(* characters is normalized, and the result is normalized again.           *)
(***************************************************************************)
NormChars == {"a", "A", "I.", " ", "-"}

InitNorm ==
  /\ text \in SeqsUpTo(NormChars, MaxNameLen)
  /\ once = None /\ twice = None
  /\ contacts_dir = <<File(<<"a">>)>> /\ contacts_map = load_contacts_map(contacts_dir)
  /\ state_file = {} /\ geo_cache_file = EmptyMap /\ sink = {} /\ committed = {}
  /\ runs = 1 /\ pc = "idle" /\ exit = "none" /\ feed = None
  /\ ignore_state = FALSE /\ state = {} /\ processed = {}
  /\ geo_cache = EmptyMap /\ radius_km = DEFAULT_RADIUS_KM
  /\ new_trips = <<>> /\ trip = None /\ selected = {}
  /\ MatchIdle /\ GeoIdle /\ FetchIdle
  /\ lines = <<>> /\ created_count = 0 /\ run_tasks = {}
  /\ repeat = "no" /\ noflag = TRUE /\ TallyIdle

(* normalize_city(text) *)
Normalize ==
  /\ once = None
  /\ once' = Some(normalize_city(text))
  /\ UNCHANGED <<tallyv, text, twice, fetchv, env, hist, runv, tripv, matchv,
                 geov, emitv, runs, pc, exit, feed>>

(* normalize_city of the key that normalize_city returned *)
Renormalize ==
  /\ once # None /\ twice = None
  /\ twice' = Some(normalize_city(val(once)))
  /\ UNCHANGED <<tallyv, text, once, fetchv, env, hist, runv, tripv, matchv,
                 geov, emitv, runs, pc, exit, feed>>

NextNorm == Normalize \/ Renormalize

SpecNorm == InitNorm /\ [][NextNorm]_vars

(***************************************************************************)
(* Properties of the runs (checked under Spec).                            *)
(***************************************************************************)
GeoPcs == {"geo_trip", "geo_contact"}

(* the step creates a task in the sink *)
Emitted == created_count' = created_count + 1

EmittedTask == Task(val(trip), Head(lines))

FeedIds ==
  IF feed = None THEN {}
  ELSE {fetch_trips(val(feed))[i].trip_id : i \in 1..Len(fetch_trips(val(feed)))}

(* C1: when a run has ended normally, every trip it selected for processing
   is in the persisted processed set, matched or not. *)
C1_SelectedArePersisted ==
  (pc = "exit" /\ exit = "ok") => selected \subseteq state_file

(* C2: a run with --ignore-state never removes a trip identity from the
   persisted processed set. *)
C2_IgnoreStateKeepsState ==
  [][ignore_state' => state_file \subseteq state_file']_vars

(* C3: a run without the flag that repeats a completed run without the flag
   on the same feed selects no trip (all are processed already), creates no
   task, and leaves the persisted processed set a superset of what it
   loaded. *)
C3_IdempotentRerun ==
  (repeat = "ok" /\ pc # "fetch") => (selected = {} /\ created_count = 0 /\ state \subseteq state_file)

(* C4 as stated: over runs without the flag on one feed, interrupted or
   not, no task that the sink already has is created again. *)
C4_NeverRecreated ==
  [][(repeat # "no" /\ pc # "fetch" /\ Emitted) => EmittedTask \notin sink]_vars

(* C4 as amended: over runs without the flag, a task created by a run that
   reached its final save is never created again by a later run. *)
C4_SavedNeverRecreated ==
  [][(noflag /\ Emitted) => EmittedTask \notin committed]_vars

(* a later run without the flag on the same feed creates tasks while tasks
   of a saved run exist *)
C4_Witness ==
  repeat = "ok" /\ noflag /\ committed # {} /\ created_count > 0
  /\ \E t \in committed : t.trip \in FeedIds

(* C5: in a run without the flag no task is created for a trip whose id is
   in the persisted processed set at the start of the run. *)
C5_NoTaskForProcessed ==
  [][(~ignore_state /\ Emitted) => val(trip).trip_id \notin state_file]_vars

(* a run without the flag creates tasks while its feed holds, with an end
   date, a trip that the loaded processed set names and that has its task *)
C5_Witness ==
  /\ ~ignore_state /\ created_count > 0 /\ pc = "persist"
  /\ \E i \in 1..Len(fetch_trips(val(feed))) :
       /\ fetch_trips(val(feed))[i].trip_id \in state
       /\ fetch_trips(val(feed))[i].city = <<"a">>
       /\ fetch_trips(val(feed))[i].end_date = Some(3)
       /\ Task(fetch_trips(val(feed))[i], "n1") \in sink

(* C6 as stated: within a run every normalized city is sent to the provider
   at most once, answered or not. *)
C6_OneLookupPerCity ==
  \A k \in DOMAIN lookups : lookups[k] <= 1

(* C6 as amended: within a run the provider answers at most one request per
   normalized city with a coordinate, and a resolution of a city that is in
   the cache sends no request and returns the cached coordinate. *)
C6_OneAnswerPerCity ==
  /\ [](\A k \in DOMAIN resolved : resolved[k] <= 1)
  /\ [][(pc \in GeoPcs /\ val(gkey') \in DOMAIN geo_cache)
          => (lookups' = lookups /\ resp' = "hit"
              /\ coords' = Some(geo_cache[val(gkey')]))]_vars

(* a city answered earlier in the run is resolved again, from the cache *)
C6_Witness ==
  resp = "hit" /\ val(gkey) \in DOMAIN resolved

(* C7: a resolution whose request returns an empty result returns None and
   leaves the cache as it was, with no entry for the city. *)
C7_EmptyNotCached ==
  [][(pc \in GeoPcs /\ resp' = "empty")
       => (coords' = None /\ geo_cache' = geo_cache
           /\ val(gkey') \notin DOMAIN geo_cache')]_vars

(* a city whose first request of the run came back empty was requested
   again and is now resolved *)
C7_Witness ==
  \E k \in DOMAIN resolved : lookups[k] >= 2 /\ resolved[k] = 1

(* the run in hand has a configuration error: the configuration did not
   load, lacks the feed address or the credential, or the contacts directory
   has no contact file *)
ConfigError ==
  /\ runs > 0
  /\ \/ ~config.loaded \/ ~config.ics_url \/ ~config.api_token
     \/ \A i \in 1..Len(contacts_dir) : ~contacts_dir[i].txt

(* C13: a run with a configuration error has ended with a non-zero exit
   without a geocode lookup, a task or a save, and the step that starts it
   leaves the feed unfetched and the sink and both documents as they were. *)
C13_ConfigErrorAborts ==
  /\ [](ConfigError => /\ pc = "exit" /\ exit = "error"
                        /\ GeoIdle /\ created_count = 0 /\ run_tasks = {}
                        /\ saves = 0)
  /\ [][ConfigError' => UNCHANGED <<feed, sink, committed, state_file,
                                    geo_cache_file>>]_vars

(* a run without credential has aborted after a run that saved a processed
   trip and created tasks *)
C13_Witness ==
  /\ ConfigError /\ ~config.api_token /\ runs = 2
  /\ state_file # {} /\ sink # {} /\ geo_cache_file # EmptyMap

(* cache g holds every entry of cache f, with the same coordinate *)
Extends(g, f) == \A k \in DOMAIN f : k \in DOMAIN g /\ g[k] = f[k]

(* C14: no step of a run removes or changes an entry of the run's cache, no
   step at all removes or changes an entry of the persisted cache, and a run
   that has loaded its documents holds every persisted entry. *)
C14_CacheAppendOnly ==
  /\ [][runs' = runs => Extends(geo_cache', geo_cache)]_vars
  /\ [][Extends(geo_cache_file', geo_cache_file)]_vars
  /\ []((runs > 0 /\ config.loaded /\ config.ics_url /\ config.api_token)
          => Extends(geo_cache, geo_cache_file))

(* the second run has saved a cache of two cities, one of which it resolved
   itself and one of which it loaded and found in the cache *)
C14_Witness ==
  /\ runs = 2 /\ pc = "exit" /\ exit = "ok" /\ saves = 1
  /\ Cardinality(DOMAIN geo_cache_file) = 2
  /\ Cardinality(DOMAIN resolved) = 1
  /\ DOMAIN geo_cache_file \ DOMAIN lookups # {}

Ended == pc = "exit" /\ runs > 0

(* the step writes a persisted document *)
Saving ==
  state_file' # state_file \/ geo_cache_file' # geo_cache_file \/ saves' > saves

(* C15 as stated: a run that has exited zero has saved the documents exactly
   once, a run that failed has not saved them, and the documents are written
   only by the last step of a run, which exits zero. *)
C15_SavedOncePerSuccess ==
  /\ []((Ended /\ exit = "ok") => saves = 1)
  /\ []((Ended /\ exit # "ok") => saves = 0)
  /\ [][Saving => (pc = "persist" /\ pc' = "exit" /\ exit' = "ok")]_vars

(* C15 as amended: a run saves the documents at most once; a run that has
   exited zero has saved them exactly when it had new trips to handle, as
   its last step and with no trip left; a run that failed has not saved
   them; and no other step changes a persisted document. *)
C15_SavedOnceAfterTrips ==
  /\ [](saves <= 1)
  /\ []((Ended /\ exit = "ok") => (saves = 1 <=> selected # {}))
  /\ []((Ended /\ exit # "ok") => saves = 0)
  /\ [][Saving => /\ pc = "persist" /\ new_trips = <<>> /\ saves' = 1
                  /\ pc' = "exit" /\ exit' = "ok"]_vars

(* the second run marked a trip and filled its cache, and was then
   interrupted by the task sink: the documents are those of the first run *)
C15_Witness ==
  /\ runs = 2 /\ Ended /\ exit = "raised" /\ resp # "error" /\ saves = 0
  /\ state_file # {} /\ processed # state_file
  /\ geo_cache # geo_cache_file /\ run_tasks # {}

(* the tasks of matched trips that the run has not emitted *)
Unemitted == due \ run_tasks

(* C18: a trip with a task still to emit is not in the processed set, and it
   is the one trip in hand: every trip the run has marked has all the tasks
   of its contacts emitted, also when a call of the task sink has failed. *)
C18_MarkAfterEmission ==
  \A t \in Unemitted :
    /\ t.trip \notin processed
    /\ trip # None /\ t.trip = val(trip).trip_id

(* the task sink has failed on the second contact of a trip, after the run
   marked another trip whose tasks it had emitted *)
C18_Witness ==
  /\ Ended /\ exit = "raised" /\ Unemitted # {}
  /\ \E t \in run_tasks : t.trip = val(trip).trip_id
  /\ \E t \in run_tasks : t.trip \in processed /\ t.trip \notin state

(***************************************************************************)
(* Properties of match_city (checked under SpecMatch).                     *)
(***************************************************************************)
NT == val(trip).trip_id

Keys == {contacts_map[i].key : i \in 1..Len(contacts_map)}

(* the keys that equal the normalized trip city or are substrings of it *)
Matching == {k \in Keys : k = NT \/ contains(NT, k)}

MatchedKey == normalize_city(val(match.path))

NoGeocoding == GeoIdle /\ geo_cache = geo_cache_file

(* C8 as stated: when some key equals the normalized trip city or is a
   substring of it, the match is exact and nothing was geocoded. *)
C8_ExactPrecedence ==
  (pc = "matched" /\ Matching # {})
    => (match.type = Some("exact") /\ NoGeocoding)

(* C8 as amended: when some key equals the normalized trip city, or is
   non-empty and a substring of it, match_city never leaves the exact
   phase, geocodes nothing and returns an exact match without distance. *)
C8_ExactPrecedenceNonEmpty ==
  (NT \in Keys \/ Matching \ {<<>>} # {})
    => /\ pc \in {"match", "matched"}
       /\ NoGeocoding
       /\ pc = "matched" => (match.type = Some("exact") /\ match.distance = None
                             /\ match.path # None)

(* an exact match on a substring is returned while the map holds a
   different-named city that is in the cache *)
C8_Witness ==
  /\ pc = "matched" /\ match.type = Some("exact") /\ NT \notin Keys
  /\ \E k \in Keys \ Matching : k \in DOMAIN geo_cache

(* C9: an equal key is selected when there is one; otherwise, when keys are
   substrings of the normalized trip city, the selected key is one of them
   and none of them is longer. *)
C9_LongestKeyWins ==
  pc = "matched" =>
    /\ NT \in Keys => (match.path # None /\ MatchedKey = NT)
    /\ (NT \notin Keys /\ Matching \ {<<>>} # {})
         => /\ match.type = Some("exact")
            /\ MatchedKey \in Matching
            /\ \A k \in Matching : Len(k) <= Len(MatchedKey)

(* two keys of different length are substrings, the longer one first in the
   map, and none is equal *)
C9_Witness ==
  /\ pc = "matched" /\ NT \notin Keys /\ Len(contacts_map) = 2
  /\ contacts_map[1].key \in Matching /\ contacts_map[2].key \in Matching
  /\ Len(contacts_map[1].key) > Len(contacts_map[2].key)
  /\ contacts_map[2].key # <<>>

(* the distance of the i-th entry of the map to the trip, by the cache *)
Dist(i) == haversine_km(geo_cache[NT], geo_cache[contacts_map[i].key])

(* the entries that geocode and lie within the radius *)
InRadius ==
  {i \in 1..Len(contacts_map) :
     contacts_map[i].key \in DOMAIN geo_cache /\ Dist(i) <= radius_km}

(* C10: in the radius phase with the trip city geocoded, match_city returns
   a radius match with an entry of least distance among those that geocode
   and lie within radius_km (inclusive) and with that distance, and returns
   no match exactly when there is no such entry. *)
C10_NearestInRadius ==
  (pc = "matched" /\ Matching \ {<<>>} = {} /\ NT \notin Keys
   /\ trip_coords # None)
    => /\ NT \in DOMAIN geo_cache
       /\ (InRadius = {}) <=> (match = NoMatch)
       /\ InRadius # {}
            => /\ match.type = Some("radius")
               /\ \E i \in InRadius :
                    /\ match.path = Some(contacts_map[i].path)
                    /\ match.distance = Some(Dist(i))
                    /\ \A j \in InRadius : Dist(i) <= Dist(j)

(* a radius match is returned although another entry lies within the
   radius too, farther away and exactly at radius_km *)
C10_Witness ==
  /\ pc = "matched" /\ match.type = Some("radius")
  /\ \E j \in InRadius : Dist(j) > val(match.distance) /\ Dist(j) = radius_km

(* the provider was asked for the trip city and the cache has no entry for
   it: the trip city resolved to not-found *)
TripNotFound ==
  NT \in DOMAIN lookups /\ NT \notin DOMAIN geo_cache /\ exit # "raised"

(* C17: when the trip city resolves to not-found, match_city has returned
   no match at once: the only request sent is the one for the trip city, no
   contact city was geocoded, and the cache is as it was. *)
C17_NoFallback ==
  TripNotFound =>
    /\ pc = "matched" /\ match = NoMatch
    /\ trip_coords = None /\ items = <<>> /\ best_match = None
    /\ gkey = Some(NT) /\ resp = "empty"
    /\ DOMAIN lookups = {NT} /\ lookups[NT] = 1
    /\ geo_cache = geo_cache_file

(* the trip city was not found while the map holds two entries, one of them
   a city that is in the cache *)
C17_Witness ==
  /\ TripNotFound /\ pc = "matched" /\ Len(contacts_map) = 2
  /\ \E i \in 1..Len(contacts_map) : contacts_map[i].key \in DOMAIN geo_cache

(***************************************************************************)
(* Properties of fetch_trips (checked under SpecFetch).                    *)
(***************************************************************************)
(* the events of the feed that contribute to the trip with key k *)
Contrib(k) ==
  {i \in 1..Len(val(feed)) :
     /\ event_in_range(val(feed)[i])
     /\ parse_event_city(val(feed)[i]) # None
     /\ normalize_city(val(parse_event_city(val(feed)[i]))) = k}

StartOf(i) == val(val(feed)[i].dtstart)

(* an event without an end is a single day: its end is its start *)
EndOf(i) ==
  IF val(feed)[i].dtend = None THEN StartOf(i) ELSE val(val(feed)[i].dtend)

TripKeys == {grouped[i].trip_id : i \in 1..Len(grouped)}

(* C11: when the feed is scanned, every key with contributing events has
   one trip, whose start date is the least start and whose end date is the
   greatest end of the contributing events, the end of an event without end
   instant being its start. *)
C11_MergedSpan ==
  (pc = "fetch" /\ feed # None /\ walk = <<>>) =>
    /\ \A i \in 1..Len(val(feed)) :
         LET c == parse_event_city(val(feed)[i])
         IN  (event_in_range(val(feed)[i]) /\ c # None)
               => normalize_city(val(c)) \in TripKeys
    /\ \A n \in 1..Len(grouped) :
         LET t == grouped[n]
             C == Contrib(t.trip_id)
         IN  /\ C # {}
             /\ t.start_date # None /\ t.end_date # None
             /\ \E i \in C : val(t.start_date) = StartOf(i)
             /\ \A i \in C : val(t.start_date) <= StartOf(i)
             /\ \E i \in C : val(t.end_date) = EndOf(i)
             /\ \A i \in C : val(t.end_date) >= EndOf(i)

(* C12: after every merge step every trip has a start date, and a start
   date that is not after its end date when it has an end date. *)
C12_StartNotAfterEnd ==
  \A n \in 1..Len(grouped) :
    /\ grouped[n].start_date # None
    /\ grouped[n].end_date # None
         => val(grouped[n].start_date) <= val(grouped[n].end_date)

(* a trip is merged from an event without end and a later-scanned event
   that starts earlier and has an end *)
C12_Witness ==
  /\ pc = "fetch" /\ feed # None /\ walk = <<>> /\ Len(grouped) = 1
  /\ \E i, j \in Contrib(grouped[1].trip_id) :
       /\ i < j /\ StartOf(j) < StartOf(i)
       /\ val(feed)[i].dtend = None /\ val(feed)[j].dtend # None
       /\ grouped[1].start_date = Some(StartOf(j))

(***************************************************************************)
(* Properties of normalize_city (checked under SpecNorm).                  *)
(***************************************************************************)
(* lower-case alphanumerics and single interior spaces only *)
Canonical(s) ==
  /\ \A i \in 1..Len(s) : s[i] = " " \/ (isalnum(s[i]) /\ lower(s[i]) = <<s[i]>>)
  /\ s # <<>> => (s[1] # " " /\ s[Len(s)] # " ")
  /\ \A i \in 1..(Len(s) - 1) : ~(s[i] = " " /\ s[i + 1] = " ")

(* C16: normalizing a normalized string returns it unchanged, and a
   normalized string holds only lower-case alphanumerics and single interior
   spaces, with no space at either end. *)
C16_Idempotent ==
  /\ once # None => Canonical(val(once))
  /\ twice # None => twice = once

====
